---- MODULE Spec2Model ----
(***************************************************************************)
(* zpack: packing files and directory trees into generated Go source.      *)
(*                                                                         *)
(* Byte strings ([]byte, string, file contents, generated source text) are *)
(* kept run-length compressed: a text is a sequence of runs, a run         *)
(* [c |-> pattern, n |-> count] standing for the pattern c (a non-empty    *)
(* sequence of byte values 0..255) repeated n >= 1 times.  This is only    *)
(* the representation of the byte string: every operator below computes on *)
(* the bytes the runs stand for, so that contents around the 100 KiB       *)
(* threshold of enc can be handled.                                        *)
(***************************************************************************)
EXTENDS Integers, Sequences, FiniteSets, TLC

VARIABLES
  (* enc and the evaluation of the expression it generates *)
  content,    \* the []byte handed to enc
  expr,       \* the Go expression enc returned (source text)
  value,      \* what the Go toolchain computes for expr: [ok, val]
  epc,        \* "input" -> "encoded" -> "evaluated"
  (* Varname *)
  vin,        \* the string handed to Varname (a sequence of runes)
  vout,       \* the string Varname returned
  vpc,        \* "input" -> "done"
  (* Pack *)
  data,       \* Pack's argument: target key -> (variable name -> source path)
  ignore,     \* Pack's variadic argument: the ignore suffixes
  snapshot,   \* the file system when Pack is called
  fs,         \* the file system: path -> [kind, data, ok]
  todo,       \* target keys the range loop has not yet yielded
  cur,        \* the target key of the running loop iteration
  vars,       \* the sorted variable names still to be written for cur
  open,       \* sinks (target keys) created and not yet closed
  ppc,        \* Pack's position
  ret,        \* Pack's return value: Nil or an error (NoError while running)
  events,     \* history: the file-system and formatter calls made, in order
  run,        \* 1 for the first call of Pack, 2 for the second
  first       \* the file system the first call left (snapshot until it returned)

encVars == <<content, expr, value, epc>>
varnameVars == <<vin, vout, vpc>>
packVars == <<data, ignore, snapshot, fs, todo, cur, vars, open, ppc, ret, events, run, first>>
allVars == <<encVars, varnameVars, packVars>>

---------------------------------------------------------------------------
(* Byte strings as runs *)

NewRun(c, n) == [c |-> c, n |-> n]

\* the text of c repeated n times; the empty text when that is empty
RunOf(c, n) == IF c = <<>> \/ n <= 0 THEN <<>> ELSE <<NewRun(c, n)>>

\* the text of the explicit byte sequence c
Bytes(c) == RunOf(c, 1)

RECURSIVE TLen(_)
TLen(t) == IF t = <<>> THEN 0 ELSE Len(t[1].c) * t[1].n + TLen(Tail(t))

\* the first k bytes of t
RECURSIVE TTake(_, _)
TTake(t, k) ==
  IF k <= 0 \/ t = <<>> THEN <<>>
  ELSE LET r == t[1]
           L == Len(r.c)
       IN IF L * r.n <= k THEN <<r>> \o TTake(Tail(t), k - L * r.n)
          ELSE RunOf(r.c, k \div L) \o Bytes(SubSeq(r.c, 1, k % L))

\* t without its first k bytes
RECURSIVE TDrop(_, _)
TDrop(t, k) ==
  IF k <= 0 \/ t = <<>> THEN t
  ELSE LET r == t[1]
           L == Len(r.c)
           full == k \div L
           part == k % L
       IN IF L * r.n <= k THEN TDrop(Tail(t), k - L * r.n)
          ELSE (IF part > 0
                THEN Bytes(SubSeq(r.c, part + 1, L)) \o RunOf(r.c, r.n - full - 1)
                ELSE RunOf(r.c, r.n - full)) \o Tail(t)

\* the byte sequence c as maximal runs of one byte value: <<[b, n], ...>>
RECURSIVE SeqRuns(_, _, _)
ByteRunCat(x, y) ==
  IF x = <<>> THEN y
  ELSE IF y = <<>> THEN x
  ELSE IF x[Len(x)].b = y[1].b
       THEN SubSeq(x, 1, Len(x) - 1)
            \o <<[b |-> y[1].b, n |-> x[Len(x)].n + y[1].n]>> \o Tail(y)
       ELSE x \o y
SeqRuns(c, lo, hi) ==
  IF lo > hi THEN <<>>
  ELSE IF lo = hi THEN <<[b |-> c[lo], n |-> 1]>>
  ELSE LET mid == (lo + hi) \div 2
       IN ByteRunCat(SeqRuns(c, lo, mid), SeqRuns(c, mid + 1, hi))

Uniform(c) == \A i \in 1..Len(c) : c[i] = c[1]

RECURSIVE PowRuns(_, _)
PowRuns(x, n) ==
  IF n = 0 THEN <<>>
  ELSE IF n = 1 THEN x
  ELSE LET h == PowRuns(x, n \div 2)
       IN ByteRunCat(ByteRunCat(h, h), IF n % 2 = 1 THEN x ELSE <<>>)

\* The canonical form of a text: two texts stand for the same byte string
\* exactly when their canonical forms are equal.
RECURSIVE Canon(_)
Canon(t) ==
  IF t = <<>> THEN <<>>
  ELSE LET r == t[1]
           one == IF Uniform(r.c)
                  THEN <<[b |-> r.c[1], n |-> Len(r.c) * r.n]>>
                  ELSE PowRuns(SeqRuns(r.c, 1, Len(r.c)), r.n)
       IN ByteRunCat(one, Canon(Tail(t)))

SameBytes(s, t) == Canon(s) = Canon(t)

\* the explicit bytes of a (short) text
RECURSIVE Pow(_, _)
Pow(c, k) == IF k = 0 THEN <<>> ELSE c \o Pow(c, k - 1)
RECURSIVE Flat(_)
Flat(t) == IF t = <<>> THEN <<>> ELSE Pow(t[1].c, t[1].n) \o Flat(Tail(t))

\* bytes.HasPrefix / strings.HasSuffix against an explicit byte sequence
HasPrefix(t, c) == Flat(TTake(t, Len(c))) = c
HasSuffix(t, c) == TLen(t) >= Len(c) /\ Flat(TDrop(t, TLen(t) - Len(c))) = c

\* the same bytes with neighbouring runs of count 1 joined into one run
RECURSIVE Join(_)
Join(t) ==
  IF Len(t) < 2 THEN t
  ELSE LET rest == Join(Tail(t))
       IN IF t[1].n = 1 /\ rest[1].n = 1
          THEN <<NewRun(t[1].c \o rest[1].c, 1)>> \o Tail(rest)
          ELSE <<t[1]>> \o rest

\* every run with a count above 1 regrouped so that its pattern has a length
\* that is a multiple of k (the same bytes, other run boundaries)
RECURSIVE Regroup(_, _)
Regroup(t, k) ==
  IF t = <<>> THEN <<>>
  ELSE LET r == t[1]
       IN (IF r.n = 1 THEN <<r>>
           ELSE RunOf(Pow(r.c, k), r.n \div k) \o RunOf(r.c, r.n % k))
          \o Regroup(Tail(t), k)

---------------------------------------------------------------------------
(* Byte-at-a-time machines (library code the program calls), run over texts *)

\* encoding/base64, StdEncoding: the alphabet and the padding character
B64Char(v) ==
  IF v < 26 THEN 65 + v
  ELSE IF v < 52 THEN 97 + (v - 26)
  ELSE IF v < 62 THEN 48 + (v - 52)
  ELSE IF v = 62 THEN 43 ELSE 47
B64Pad == 61
B64Index(ch) ==
  IF ch >= 65 /\ ch <= 90 THEN ch - 65
  ELSE IF ch >= 97 /\ ch <= 122 THEN ch - 97 + 26
  ELSE IF ch >= 48 /\ ch <= 57 THEN ch - 48 + 52
  ELSE IF ch = 43 THEN 62
  ELSE IF ch = 47 THEN 63 ELSE -1

\* three bytes to four characters
B64Group(b1, b2, b3) ==
  <<B64Char(b1 \div 4),
    B64Char((b1 % 4) * 16 + b2 \div 16),
    B64Char((b2 % 16) * 4 + b3 \div 64),
    B64Char(b3 % 64)>>

\* Encoding.Encode, one source byte: q is the bytes of the unfinished group
B64EncStep(q, u) ==
  IF Len(q) = 2 THEN [q |-> <<>>, o |-> B64Group(q[1], q[2], u)]
  ELSE [q |-> Append(q, u), o |-> <<>>]

\* Encoding.Encode, the end of the input: the padded last group
B64EncFinish(q) ==
  IF Len(q) = 0 THEN <<>>
  ELSE IF Len(q) = 1
       THEN SubSeq(B64Group(q[1], 0, 0), 1, 2) \o <<B64Pad, B64Pad>>
       ELSE SubSeq(B64Group(q[1], q[2], 0), 1, 3) \o <<B64Pad>>

\* Encoding.DecodeString, one character: q = [g: the characters of the
\* unfinished group, st: "ok", "end" (a padded group was read) or "bad"]
B64DecGroup(g) ==
  LET v == [i \in 1..4 |-> B64Index(g[i])]
      b1 == v[1] * 4 + v[2] \div 16
      b2 == (v[2] % 16) * 16 + v[3] \div 4
      b3 == (v[3] % 4) * 64 + v[4]
  IN IF v[1] < 0 \/ v[2] < 0 THEN [st |-> "bad", o |-> <<>>]
     ELSE IF g[3] = B64Pad /\ g[4] = B64Pad
          THEN [st |-> "end", o |-> <<b1>>]
     ELSE IF v[3] < 0 THEN [st |-> "bad", o |-> <<>>]
     ELSE IF g[4] = B64Pad
          THEN [st |-> "end", o |-> <<b1, b2>>]
     ELSE IF v[4] < 0 THEN [st |-> "bad", o |-> <<>>]
     ELSE [st |-> "ok", o |-> <<b1, b2, b3>>]
B64DecStep(q, u) ==
  IF q.st # "ok" THEN [q |-> [g |-> <<>>, st |-> "bad"], o |-> <<>>]
  ELSE IF Len(q.g) = 3
       THEN LET d == B64DecGroup(Append(q.g, u))
            IN [q |-> [g |-> <<>>, st |-> d.st], o |-> d.o]
       ELSE [q |-> [g |-> Append(q.g, u), st |-> "ok"], o |-> <<>>]

\* unicode/utf8.Valid, one byte: q = [need: continuation bytes still due
\* (-1: invalid), lo, hi: the range the next byte must lie in]
Utf8Start == [need |-> 0, lo |-> 128, hi |-> 191]
Utf8Bad == [need |-> -1, lo |-> 128, hi |-> 191]
Utf8Step(q, u) ==
  [o |-> <<>>,
   q |-> IF q.need < 0 THEN Utf8Bad
         ELSE IF q.need > 0
              THEN IF u >= q.lo /\ u <= q.hi
                   THEN [need |-> q.need - 1, lo |-> 128, hi |-> 191]
                   ELSE Utf8Bad
         ELSE IF u < 128 THEN Utf8Start
         ELSE IF u >= 194 /\ u <= 223 THEN [need |-> 1, lo |-> 128, hi |-> 191]
         ELSE IF u = 224 THEN [need |-> 2, lo |-> 160, hi |-> 191]
         ELSE IF u = 237 THEN [need |-> 2, lo |-> 128, hi |-> 159]
         ELSE IF u >= 225 /\ u <= 239 THEN [need |-> 2, lo |-> 128, hi |-> 191]
         ELSE IF u = 240 THEN [need |-> 3, lo |-> 144, hi |-> 191]
         ELSE IF u >= 241 /\ u <= 243 THEN [need |-> 3, lo |-> 128, hi |-> 191]
         ELSE IF u = 244 THEN [need |-> 3, lo |-> 128, hi |-> 143]
         ELSE Utf8Bad]

\* bytes.Replace(s, "`", "` + \"`\" + `", -1), one byte
BacktickSplice == <<96, 32, 43, 32, 34, 96, 34, 32, 43, 32, 96>>
ReplaceStep(q, u) == [q |-> q, o |-> IF u = 96 THEN BacktickSplice ELSE <<u>>]

\* The Go compiler reading the operand of []byte( ... ), one source byte:
\* string literals joined by +.  q is "expr" (an operand is due), "raw"
\* (inside a raw string literal), "str" (inside an interpreted string
\* literal), "op" (after an operand), "done" (after the closing
\* parenthesis) or "bad" (no such expression).  The value of a raw string
\* literal is the text between the back quotes with the carriage returns
\* discarded (The Go Programming Language Specification, String literals).
GoStringStep(q, u) ==
  IF q = "expr"
  THEN [o |-> <<>>, q |-> IF u = 96 THEN "raw" ELSE IF u = 34 THEN "str"
                          ELSE IF u = 32 THEN "expr" ELSE "bad"]
  ELSE IF q = "raw"
  THEN IF u = 96 THEN [o |-> <<>>, q |-> "op"]
       ELSE IF u = 13 THEN [o |-> <<>>, q |-> "raw"]
       ELSE [o |-> <<u>>, q |-> "raw"]
  ELSE IF q = "str"
  THEN IF u = 34 THEN [o |-> <<>>, q |-> "op"]
       ELSE IF u = 92 \/ u = 10 THEN [o |-> <<>>, q |-> "bad"]
       ELSE [o |-> <<u>>, q |-> "str"]
  ELSE IF q = "op"
  THEN [o |-> <<>>, q |-> IF u = 32 THEN "op" ELSE IF u = 43 THEN "expr"
                          ELSE IF u = 41 THEN "done" ELSE "bad"]
  ELSE [o |-> <<>>, q |-> "bad"]

Step(m, q, u) ==
  CASE m = "b64enc" -> B64EncStep(q, u)
    [] m = "b64dec" -> B64DecStep(q, u)
    [] m = "utf8" -> Utf8Step(q, u)
    [] m = "replace" -> ReplaceStep(q, u)
    [] m = "gostring" -> GoStringStep(q, u)

\* machine m from state q over the bytes c[lo..hi]: the state reached and
\* the bytes put out
RECURSIVE Feed(_, _, _, _, _)
Feed(m, q, c, lo, hi) ==
  IF lo > hi THEN [q |-> q, o |-> <<>>]
  ELSE IF lo = hi THEN Step(m, q, c[lo])
  ELSE LET mid == (lo + hi) \div 2
           l == Feed(m, q, c, lo, mid)
           r == Feed(m, l.q, c, mid + 1, hi)
       IN [o |-> l.o \o r.o, q |-> r.q]

\* machine m from state q over the text t: the state reached and the text
\* put out.  A run whose pattern brings the machine back to the state it
\* entered the pattern with does the same on every further repetition.
RECURSIVE Trans(_, _, _)
Trans(m, q, t) ==
  IF t = <<>> THEN [q |-> q, o |-> <<>>]
  ELSE LET r == t[1]
           f1 == Feed(m, q, r.c, 1, Len(r.c))
           f2 == Feed(m, f1.q, r.c, 1, Len(r.c))
           same == r.n > 1 /\ f2.q = f1.q
           rest == IF r.n = 1 \/ same THEN Trans(m, f1.q, Tail(t))
                   ELSE Trans(m, f1.q, RunOf(r.c, r.n - 1) \o Tail(t))
       IN [o |-> Bytes(f1.o) \o (IF same THEN RunOf(f2.o, r.n - 1) ELSE <<>>)
                 \o rest.o,
           q |-> rest.q]

\* base64.StdEncoding.EncodeToString
EncodeToString(t) ==
  LET r == Trans("b64enc", <<>>, Regroup(t, 3))
  IN r.o \o Bytes(B64EncFinish(r.q))

\* base64.StdEncoding.DecodeString: [ok, val]
DecodeString(t) ==
  LET r == Trans("b64dec", [g |-> <<>>, st |-> "ok"], Regroup(t, 4))
  IN [ok |-> r.q.st # "bad" /\ r.q.g = <<>>, val |-> r.o]

\* unicode/utf8.Valid
Valid(t) == Trans("utf8", Utf8Start, t).q.need = 0

\* bytes.IndexByte(s, b) == -1
NoByte(t, b) == \A i \in 1..Len(t) : \A j \in 1..Len(t[i].c) : t[i].c[j] # b

---------------------------------------------------------------------------
(* compress/zlib (RFC 1950, RFC 1951) *)

AdlerMod == 65521

\* x * y modulo 65521 for x, y < 65521, within 32-bit integers
MulMod(x, y) == (((x * (y \div 256)) % AdlerMod) * 256 + x * (y % 256)) % AdlerMod

RECURSIVE SumBytes(_)
SumBytes(c) == IF c = <<>> THEN 0 ELSE c[1] + SumBytes(Tail(c))
\* what one pass over c adds to the second Adler sum besides Len(c) * a
RECURSIVE WeightedSum(_)
WeightedSum(c) == IF c = <<>> THEN 0 ELSE Len(c) * c[1] + WeightedSum(Tail(c))

\* Adler-32 of a text, from the sums [a, b]
RECURSIVE Adler(_, _)
Adler(s, t) ==
  IF t = <<>> THEN s
  ELSE LET r == t[1]
           n == r.n % AdlerMod
           L == Len(r.c) % AdlerMod
           S == SumBytes(r.c) % AdlerMod
           W == WeightedSum(r.c) % AdlerMod
           tri == IF r.n % 2 = 0
                  THEN MulMod((r.n \div 2) % AdlerMod, (r.n - 1) % AdlerMod)
                  ELSE MulMod(r.n % AdlerMod, ((r.n - 1) \div 2) % AdlerMod)
           a == (s.a + MulMod(n, S)) % AdlerMod
           b == (s.b + MulMod(MulMod(n, L), s.a) + MulMod(MulMod(L, S), tri)
                     + MulMod(n, W)) % AdlerMod
       IN Adler([a |-> a, b |-> b], Tail(t))
Adler32(t) ==
  LET s == Adler([a |-> 1, b |-> 0], t)
  IN <<s.b \div 256, s.b % 256, s.a \div 256, s.a % 256>>

\* The deflate stream of a text.  Which block coding the writer picks does
\* not change what a reader returns; the stream is written here in stored
\* blocks (RFC 1951, 3.2.4), at most 65535 bytes each.
StoredMax == 65535
RECURSIVE Deflate(_)
Deflate(t) ==
  LET n == TLen(t)
  IN IF n <= StoredMax
     THEN Bytes(<<1, n % 256, n \div 256, 255 - (n % 256), 255 - (n \div 256)>>) \o t
     ELSE Bytes(<<0, 255, 255, 0, 0>>) \o TTake(t, StoredMax)
          \o Deflate(TDrop(t, StoredMax))

\* zlib.NewWriter(&b); w.Write(s); w.Close(): header, deflate stream, Adler-32
ZlibHeader == <<120, 156>>
Compress(t) == Bytes(ZlibHeader) \o Deflate(t) \o Bytes(Adler32(t))

\* the reader's side of the deflate stream: [ok, val, rest]
RECURSIVE Inflate(_)
Inflate(t) ==
  LET h == Flat(TTake(t, 5))
      n == h[2] + 256 * h[3]
      body == TDrop(t, 5)
      more == Inflate(TDrop(body, n))
  IN IF Len(h) < 5 \/ h[1] \notin {0, 1} \/ h[4] # 255 - h[2] \/ h[5] # 255 - h[3]
        \/ TLen(body) < n
     THEN [ok |-> FALSE, val |-> <<>>, rest |-> <<>>]
     ELSE IF h[1] = 1
          THEN [ok |-> TRUE, val |-> TTake(body, n), rest |-> TDrop(body, n)]
          ELSE [ok |-> more.ok, val |-> TTake(body, n) \o more.val, rest |-> more.rest]

\* zlib.NewReader(r) and ioutil.ReadAll: [ok, val]
Decompress(t) ==
  LET h == Flat(TTake(t, 2))
      d == Inflate(TDrop(t, 2))
  IN IF Len(h) = 2 /\ h[1] % 16 = 8 /\ (h[1] * 256 + h[2]) % 31 = 0 /\ d.ok
        /\ Flat(TTake(d.rest, 4)) = Adler32(d.val)
     THEN [ok |-> TRUE, val |-> d.val]
     ELSE [ok |-> FALSE, val |-> <<>>]

---------------------------------------------------------------------------
(* enc: the Go expression for a []byte *)

\* zpack.go:214-215, the format string up to %s
\*   func() []byte {
\*   \t\t\tz, err := base64.StdEncoding.DecodeString("
CompressedPrefix ==
  <<102, 117, 110, 99, 40, 41, 32, 91, 93, 98, 121, 116, 101, 32, 123, 10, 9, 9, 9, 122,
    44, 32, 101, 114, 114, 32, 58, 61, 32, 98, 97, 115, 101, 54, 52, 46, 83, 116, 100, 69,
    110, 99, 111, 100, 105, 110, 103, 46, 68, 101, 99, 111, 100, 101, 83, 116, 114, 105, 110, 103,
    40, 34>>
\* zpack.go:215-230, the format string after %s
\*   ")
\*   \t\t\tif err != nil {
\*   \t\t\t\tpanic(err)
\*   \t\t\t}
\*   \t\t\tr, err := zlib.NewReader(bytes.NewReader(z))
\*   \t\t\tif err != nil {
\*   \t\t\t\tpanic(err)
\*   \t\t\t}
\*   
\*   \t\t\ts, err := ioutil.ReadAll(r)
\*   \t\t\tif err != nil {
\*   \t\t\t\tpanic(err)
\*   \t\t\t}
\*   \t\t\tr.Close()
\*   \t\t\treturn s
\*   \t\t}()
CompressedSuffix ==
  <<34, 41, 10, 9, 9, 9, 105, 102, 32, 101, 114, 114, 32, 33, 61, 32, 110, 105, 108, 32,
    123, 10, 9, 9, 9, 9, 112, 97, 110, 105, 99, 40, 101, 114, 114, 41, 10, 9, 9, 9,
    125, 10, 9, 9, 9, 114, 44, 32, 101, 114, 114, 32, 58, 61, 32, 122, 108, 105, 98, 46,
    78, 101, 119, 82, 101, 97, 100, 101, 114, 40, 98, 121, 116, 101, 115, 46, 78, 101, 119, 82,
    101, 97, 100, 101, 114, 40, 122, 41, 41, 10, 9, 9, 9, 105, 102, 32, 101, 114, 114, 32,
    33, 61, 32, 110, 105, 108, 32, 123, 10, 9, 9, 9, 9, 112, 97, 110, 105, 99, 40, 101,
    114, 114, 41, 10, 9, 9, 9, 125, 10, 10, 9, 9, 9, 115, 44, 32, 101, 114, 114, 32,
    58, 61, 32, 105, 111, 117, 116, 105, 108, 46, 82, 101, 97, 100, 65, 108, 108, 40, 114, 41,
    10, 9, 9, 9, 105, 102, 32, 101, 114, 114, 32, 33, 61, 32, 110, 105, 108, 32, 123, 10,
    9, 9, 9, 9, 112, 97, 110, 105, 99, 40, 101, 114, 114, 41, 10, 9, 9, 9, 125, 10,
    9, 9, 9, 114, 46, 67, 108, 111, 115, 101, 40, 41, 10, 9, 9, 9, 114, 101, 116, 117,
    114, 110, 32, 115, 10, 9, 9, 125, 40, 41>>
\* zpack.go:234-235, the format string up to %s
\*   func() []byte {
\*   \t\ts, err := base64.StdEncoding.DecodeString("
EncodedPrefix ==
  <<102, 117, 110, 99, 40, 41, 32, 91, 93, 98, 121, 116, 101, 32, 123, 10, 9, 9, 115, 44,
    32, 101, 114, 114, 32, 58, 61, 32, 98, 97, 115, 101, 54, 52, 46, 83, 116, 100, 69, 110,
    99, 111, 100, 105, 110, 103, 46, 68, 101, 99, 111, 100, 101, 83, 116, 114, 105, 110, 103, 40,
    34>>
\* zpack.go:235-240, the format string after %s
\*   ")
\*   \t\tif err != nil {
\*   \t\t\tpanic(err)
\*   \t\t}
\*   \t\treturn s
\*   \t}()
EncodedSuffix ==
  <<34, 41, 10, 9, 9, 105, 102, 32, 101, 114, 114, 32, 33, 61, 32, 110, 105, 108, 32, 123,
    10, 9, 9, 9, 112, 97, 110, 105, 99, 40, 101, 114, 114, 41, 10, 9, 9, 125, 10, 9,
    9, 114, 101, 116, 117, 114, 110, 32, 115, 10, 9, 125, 40, 41>>
\* zpack.go:204, "[]byte(`" and "`)" around the content
LiteralPrefix == <<91, 93, 98, 121, 116, 101, 40, 96>>
LiteralSuffix == <<96, 41>>

\* zpack.go:208, files larger than 100K are compressed
CompressLimit == 1024 * 100

\* enc with the limit taken as inclusive
encInclusive(s) ==
  IF NoByte(s, 0) /\ Valid(s)
  THEN Bytes(LiteralPrefix) \o Trans("replace", 0, s).o \o Bytes(LiteralSuffix)
  ELSE IF TLen(s) >= CompressLimit
       THEN Bytes(CompressedPrefix) \o EncodeToString(Compress(s)) \o Bytes(CompressedSuffix)
       ELSE Bytes(EncodedPrefix) \o EncodeToString(s) \o Bytes(EncodedSuffix)

enc(s) ==
  IF NoByte(s, 0) /\ Valid(s)
  THEN Bytes(LiteralPrefix) \o Trans("replace", 0, s).o \o Bytes(LiteralSuffix)
  ELSE IF TLen(s) > CompressLimit
       THEN Bytes(CompressedPrefix) \o EncodeToString(Compress(s))
            \o Bytes(CompressedSuffix)
       ELSE Bytes(EncodedPrefix) \o EncodeToString(s) \o Bytes(EncodedSuffix)

\* t between a prefix of p bytes and a suffix of s bytes
Between(t, p, s) == TTake(TDrop(t, p), TLen(t) - p - s)

\* What the generated Go expression evaluates to when the package is
\* compiled and the variable initialised: [ok, val], ok false when the
\* expression does not compile or panics.
NoValue == [ok |-> FALSE, val |-> <<>>]
EvalLiteral(e) ==
  LET r == Trans("gostring", "expr", TDrop(e, Len(LiteralPrefix) - 1))
  IN IF r.q = "done" THEN [ok |-> TRUE, val |-> r.o] ELSE NoValue
EvalEncoded(e) ==
  LET s == DecodeString(Between(e, Len(EncodedPrefix), Len(EncodedSuffix)))
  IN IF s.ok THEN [ok |-> TRUE, val |-> s.val] ELSE NoValue
EvalCompressed(e) ==
  LET z == DecodeString(Between(e, Len(CompressedPrefix), Len(CompressedSuffix)))
      s == Decompress(z.val)
  IN IF z.ok /\ s.ok THEN [ok |-> TRUE, val |-> s.val] ELSE NoValue
EvalGo(e) ==
  IF HasPrefix(e, SubSeq(LiteralPrefix, 1, Len(LiteralPrefix) - 1))
  THEN EvalLiteral(e)
  ELSE IF HasPrefix(e, EncodedPrefix) /\ HasSuffix(e, EncodedSuffix)
  THEN EvalEncoded(e)
  ELSE IF HasPrefix(e, CompressedPrefix) /\ HasSuffix(e, CompressedSuffix)
  THEN EvalCompressed(e)
  ELSE NoValue

\* which of the three forms an expression has
EncodingKind(e) ==
  IF HasPrefix(e, LiteralPrefix) /\ HasSuffix(e, LiteralSuffix) THEN "Literal"
  ELSE IF HasPrefix(e, EncodedPrefix) /\ HasSuffix(e, EncodedSuffix) THEN "Encoded"
  ELSE IF HasPrefix(e, CompressedPrefix) /\ HasSuffix(e, CompressedSuffix)
  THEN "CompressedEncoded"
  ELSE "none"

---------------------------------------------------------------------------
(* Varname: a string (a sequence of runes) to an identifier *)

\* unicode.IsLetter and unicode.IsDigit on the runes used here: the ASCII
\* and Greek letters, the ASCII and Arabic-Indic digits
IsLetter(c) ==
  \/ c >= 65 /\ c <= 90
  \/ c >= 97 /\ c <= 122
  \/ c >= 913 /\ c <= 929
  \/ c >= 931 /\ c <= 969
IsDigit(c) ==
  \/ c >= 48 /\ c <= 57
  \/ c >= 1632 /\ c <= 1641

\* the loop of Varname from rune i on: n is the result so far
RECURSIVE VarnameLoop(_, _, _, _)
VarnameLoop(s, i, n, replaced) ==
  IF i > Len(s) THEN n
  ELSE IF IsLetter(s[i]) \/ IsDigit(s[i]) \/ s[i] = 95
       THEN VarnameLoop(s, i + 1, Append(n, s[i]), FALSE)
       ELSE IF ~replaced
            THEN VarnameLoop(s, i + 1, Append(n, 95), TRUE)
            ELSE VarnameLoop(s, i + 1, n, replaced)

\* Varname with replaced never set: one underscore for each invalid rune
VarnameEach(s) ==
  IF s = <<>> THEN <<>>
  ELSE LET n == [i \in 1..Len(s) |->
                   IF IsLetter(s[i]) \/ IsDigit(s[i]) \/ s[i] = 95 THEN s[i] ELSE 95]
       IN IF n[1] # 95 /\ ~IsLetter(n[1]) THEN <<118>> \o n ELSE n

Varname(s) ==
  IF s = <<>> THEN <<>>
  ELSE LET n == VarnameLoop(s, 1, <<>>, FALSE)
       IN IF n[1] # 95 /\ ~IsLetter(n[1]) THEN <<118>> \o n ELSE n
\* zpack.go:94
\*   // Code generated by pack.go; DO NOT EDIT.
\*   
\*   
HeaderMarker ==
  <<47, 47, 32, 67, 111, 100, 101, 32, 103, 101, 110, 101, 114, 97, 116, 101, 100, 32, 98, 121,
    32, 112, 97, 99, 107, 46, 103, 111, 59, 32, 68, 79, 32, 78, 79, 84, 32, 69, 68, 73,
    84, 46, 10, 10>>
\* zpack.go:98
\*   package 
HeaderPackage ==
  <<112, 97, 99, 107, 97, 103, 101, 32>>
\* zpack.go:98-103
\*   
\*   
\*   import (
\*   \t\t"bytes"
\*   \t\t"compress/zlib"
\*   \t\t"encoding/base64"
\*   \t\t"io/ioutil"
\*   \t)
\*   
\*   var _, _, _, _ = zlib.BestSpeed, base64.NoPadding, ioutil.Discard, bytes.Join
\*   
\*   
HeaderImports ==
  <<10, 10, 105, 109, 112, 111, 114, 116, 32, 40, 10, 9, 9, 34, 98, 121, 116, 101, 115, 34,
    10, 9, 9, 34, 99, 111, 109, 112, 114, 101, 115, 115, 47, 122, 108, 105, 98, 34, 10, 9,
    9, 34, 101, 110, 99, 111, 100, 105, 110, 103, 47, 98, 97, 115, 101, 54, 52, 34, 10, 9,
    9, 34, 105, 111, 47, 105, 111, 117, 116, 105, 108, 34, 10, 9, 41, 10, 10, 118, 97, 114,
    32, 95, 44, 32, 95, 44, 32, 95, 44, 32, 95, 32, 61, 32, 122, 108, 105, 98, 46, 66,
    101, 115, 116, 83, 112, 101, 101, 100, 44, 32, 98, 97, 115, 101, 54, 52, 46, 78, 111, 80,
    97, 100, 100, 105, 110, 103, 44, 32, 105, 111, 117, 116, 105, 108, 46, 68, 105, 115, 99, 97,
    114, 100, 44, 32, 98, 121, 116, 101, 115, 46, 74, 111, 105, 110, 10, 10>>
\* gofmt of the import block
\*   
\*   
\*   import (
\*   \t"bytes"
\*   \t"compress/zlib"
\*   \t"encoding/base64"
\*   \t"io/ioutil"
\*   )
\*   
\*   var _, _, _, _ = zlib.BestSpeed, base64.NoPadding, ioutil.Discard, bytes.Join
\*   
\*   
HeaderImportsFormatted ==
  <<10, 10, 105, 109, 112, 111, 114, 116, 32, 40, 10, 9, 34, 98, 121, 116, 101, 115, 34, 10,
    9, 34, 99, 111, 109, 112, 114, 101, 115, 115, 47, 122, 108, 105, 98, 34, 10, 9, 34, 101,
    110, 99, 111, 100, 105, 110, 103, 47, 98, 97, 115, 101, 54, 52, 34, 10, 9, 34, 105, 111,
    47, 105, 111, 117, 116, 105, 108, 34, 10, 41, 10, 10, 118, 97, 114, 32, 95, 44, 32, 95,
    44, 32, 95, 44, 32, 95, 32, 61, 32, 122, 108, 105, 98, 46, 66, 101, 115, 116, 83, 112,
    101, 101, 100, 44, 32, 98, 97, 115, 101, 54, 52, 46, 78, 111, 80, 97, 100, 100, 105, 110,
    103, 44, 32, 105, 111, 117, 116, 105, 108, 46, 68, 105, 115, 99, 97, 114, 100, 44, 32, 98,
    121, 116, 101, 115, 46, 74, 111, 105, 110, 10, 10>>

---------------------------------------------------------------------------
(* Path strings, and the file system Pack works on *)

\* a path string is a sequence of bytes; a location in the file system is
\* the sequence of the names that lead to it
Slash == <<47>>
Dot == <<46>>

\* the names between the separators of path string s
RECURSIVE SplitPath(_)
SplitPath(s) ==
  IF \A i \in 1..Len(s) : s[i] # Slash[1] THEN <<s>>
  ELSE LET i == CHOOSE j \in 1..Len(s) :
                  s[j] = Slash[1] /\ \A k \in 1..(j - 1) : s[k] # Slash[1]
       IN <<SubSeq(s, 1, i - 1)>> \o SplitPath(SubSeq(s, i + 1, Len(s)))

\* the location a path string names: empty and "." elements name nothing
Resolve(s) == SelectSeq(SplitPath(s), LAMBDA n : n # <<>> /\ n # Dot)

RECURSIVE JoinNames(_)
JoinNames(p) ==
  IF p = <<>> THEN <<>>
  ELSE IF Len(p) = 1 THEN p[1]
  ELSE p[1] \o Slash \o JoinNames(Tail(p))

\* filepath.Clean, filepath.Dir, filepath.Base and filepath.Join on
\* relative path strings without ".." elements
FilepathClean(s) == IF Resolve(s) = <<>> THEN Dot ELSE JoinNames(Resolve(s))
FilepathDir(s) ==
  LET p == SplitPath(s)
  IN FilepathClean(JoinNames(SubSeq(p, 1, Len(p) - 1)))
FilepathBase(s) ==
  LET p == SelectSeq(SplitPath(s), LAMBDA n : n # <<>>)
  IN IF p = <<>> THEN Dot ELSE p[Len(p)]
FilepathJoin(s, name) == FilepathClean(s \o Slash \o name)

\* strings.HasSuffix
StringsHasSuffix(s, suffix) ==
  /\ Len(s) >= Len(suffix)
  /\ SubSeq(s, Len(s) - Len(suffix) + 1, Len(s)) = suffix

\* the order of Go strings: byte by byte, a proper prefix first
StringLess(a, b) ==
  \E i \in 1..(Len(b)) :
    /\ i <= Len(a) + 1
    /\ \A k \in 1..(i - 1) : a[k] = b[k]
    /\ (i = Len(a) + 1 \/ a[i] < b[i])

\* the strings of a set in descending order
RECURSIVE SortStringsDescending(_)
SortStringsDescending(S) ==
  IF S = {} THEN <<>>
  ELSE LET m == CHOOSE x \in S : \A y \in S \ {x} : StringLess(y, x)
       IN <<m>> \o SortStringsDescending(S \ {m})

\* sort.Strings of a set of strings
RECURSIVE SortStrings(_)
SortStrings(S) ==
  IF S = {} THEN <<>>
  ELSE LET m == CHOOSE x \in S : \A y \in S \ {x} : StringLess(x, y)
       IN <<m>> \o SortStrings(S \ {m})

\* a node of the file system: nothing, a file with its content, or a
\* directory; ok is FALSE when the node cannot be opened for reading
Missing == [kind |-> "none", data |-> <<>>, ok |-> FALSE]
NewFile(t) == [kind |-> "file", data |-> t, ok |-> TRUE]
NewDir == [kind |-> "dir", data |-> <<>>, ok |-> TRUE]
Exists(f, p) == p \in DOMAIN f /\ f[p].kind # "none"
IsDir(f, p) == p \in DOMAIN f /\ f[p].kind = "dir"

\* the names in directory p, the last first
DirNamesDescending(f, p) ==
  SortStringsDescending({q[Len(q)] : q \in {r \in DOMAIN f :
      /\ Len(r) = Len(p) + 1
      /\ SubSeq(r, 1, Len(p)) = p
      /\ f[r].kind # "none"}})

\* the names in directory p, as readDirNames returns them: sorted
DirNames(f, p) ==
  SortStrings({q[Len(q)] : q \in {r \in DOMAIN f :
      /\ Len(r) = Len(p) + 1
      /\ SubSeq(r, 1, Len(p)) = p
      /\ f[r].kind # "none"}})

\* filepath.Walk: the calls it makes to the walk function, in order, each
\* with the path string and whether it passes an error (a directory that
\* cannot be read).  todoList holds the entries still to be visited, the next
\* one first: the names of a directory are visited before the rest of what
\* its parent holds.
RECURSIVE WalkFrom(_, _)
WalkFrom(f, todoList) ==
  IF todoList = <<>> THEN <<>>
  ELSE LET e == todoList[1]
           names == DirNames(f, e.at)
           below == [i \in 1..Len(names) |->
                       [path |-> FilepathJoin(e.path, names[i]), at |-> Append(e.at, names[i])]]
       IN IF ~IsDir(f, e.at)
          THEN <<[path |-> e.path, at |-> e.at, err |-> FALSE]>> \o WalkFrom(f, Tail(todoList))
          ELSE IF ~f[e.at].ok
               THEN <<[path |-> e.path, at |-> e.at, err |-> TRUE]>>
                      \o WalkFrom(f, Tail(todoList))
               ELSE <<[path |-> e.path, at |-> e.at, err |-> FALSE]>>
                      \o WalkFrom(f, below \o Tail(todoList))

\* filepath.Walk from path string s, which names location p
Walk(f, s, p) == WalkFrom(f, <<[path |-> s, at |-> p]>>)

---------------------------------------------------------------------------
(* Header, File, Dir and Format *)

\* one call Pack makes to the outside, as recorded in events: the target
\* whose iteration makes it, the call, the path of the file it is on, for a
\* write what is written (arg) under which name and the bytes, and whether
\* the call succeeded
Event(t, op, path, arg, name, bytes, ok) ==
  [t |-> t, op |-> op, path |-> path, arg |-> arg, name |-> name, data |-> bytes, ok |-> ok]

\* an error value: the call that failed and the path it carries
Error(kind, path) == [kind |-> kind, path |-> path]
NoError == Error("none", <<>>)
Nil == Error("nil", <<>>)
Failed(e) == e.kind # "none" /\ e.kind # "nil"

\* the state threaded through the calls of one step: the file system, the
\* event log, the number of writes to the sink that will still succeed
\* (negative: all of them) and the error returned so far
Thread(f, ev, left) == [fs |-> f, events |-> ev, left |-> left, err |-> NoError]
Log(w, e) == [w EXCEPT !.events = Append(@, e)]
Fail(w, e, err) == [w EXCEPT !.events = Append(@, e), !.err = err]

\* fp.Write(bytes) on the sink opened as out
Write(w, out, arg, name, bytes) ==
  IF w.err # NoError THEN w
  ELSE IF w.left = 0
       THEN Fail(w, Event(out, "write", out, arg, name, <<>>, FALSE), Error("write", out))
       ELSE [fs |-> [w.fs EXCEPT ![Resolve(out)].data = Join(@ \o bytes)],
             events |-> Append(w.events, Event(out, "write", out, arg, name, bytes, TRUE)),
             left |-> IF w.left > 0 THEN w.left - 1 ELSE w.left,
             err |-> NoError]

\* ioutil.ReadFile(path): the content, or an error carrying the path
ReadFile(w, out, path) ==
  LET p == Resolve(path)
      good == p \in DOMAIN w.fs /\ w.fs[p].kind = "file" /\ w.fs[p].ok
  IN IF w.err # NoError THEN w
     ELSE IF good THEN Log(w, Event(out, "read", path, "", <<>>, <<>>, TRUE))
     ELSE Fail(w, Event(out, "read", path, "", <<>>, <<>>, FALSE), Error("read", path))

Header(w, out, pkg) ==
  LET w1 == Write(w, out, "marker", <<>>, Bytes(HeaderMarker))
  IN Write(w1, out, "package", pkg, Bytes(HeaderPackage \o pkg \o HeaderImports))

VarPrefix == <<118, 97, 114, 32>>                  \* var
VarAssign == <<32, 61, 32>>                        \*  =
Newline == <<10>>
\* a call after a failed one passes the failure on: Write and ReadFile do
\* nothing once w holds an error
File(w, out, varname, path) ==
  Write(ReadFile(w, out, path), out, "var", varname,
        Bytes(VarPrefix \o varname \o VarAssign)
          \o enc(w.fs[Resolve(path)].data) \o Bytes(Newline))

MapOpen == <<32, 61, 32, 109, 97, 112, 91, 115, 116, 114, 105, 110, 103, 93, 91, 93,
             98, 121, 116, 101, 123, 10>>          \*  = map[string][]byte{
MapClose == <<125, 10, 10>>                         \* }
EntryOpen == <<9, 34>>
EntryKey == <<34, 58, 32>>
EntryEnd == <<44, 10>>

\* the test against the first suffix only
IgnoredFirst(path, ign) == ign # <<>> /\ StringsHasSuffix(path, ign[1])

Ignored(path, ign) == \E i \in 1..Len(ign) : StringsHasSuffix(path, ign[i])

\* the walk function of Dir on one call of Walk
WalkFn(w, out, e, ign) ==
  IF e.err
  THEN Fail(w, Event(out, "walk", e.path, "", <<>>, <<>>, FALSE), Error("walk", e.path))
  ELSE IF IsDir(w.fs, e.at) THEN w
  ELSE IF Ignored(e.path, ign) THEN w
  ELSE Write(ReadFile(w, out, e.path), out, "entry", e.path,
             Bytes(EntryOpen \o e.path \o EntryKey)
               \o enc(w.fs[e.at].data) \o Bytes(EntryEnd))

\* the walk going on after a call of the walk function has failed
RECURSIVE WalkAllThrough(_, _, _, _)
WalkAllThrough(w, out, calls, ign) ==
  IF calls = <<>> THEN w
  ELSE LET w1 == WalkFn([w EXCEPT !.err = NoError], out, calls[1], ign)
       IN WalkAllThrough([w1 EXCEPT !.err = IF w.err # NoError THEN w.err ELSE w1.err],
                         out, Tail(calls), ign)

\* the walk stops at the first call of the walk function that fails
RECURSIVE WalkAll(_, _, _, _)
WalkAll(w, out, calls, ign) ==
  IF calls = <<>> \/ w.err # NoError THEN w
  ELSE WalkAll(WalkFn(w, out, calls[1], ign), out, Tail(calls), ign)

DirRootOf(dir) == IF StringsHasSuffix(dir, Slash) THEN dir ELSE dir \o Slash
Dir(w, out, varname, dir, ign) ==
  Write(WalkAll(Write(w, out, "map", varname, Bytes(VarPrefix \o varname \o MapOpen)),
                out, Walk(w.fs, DirRootOf(dir), Resolve(dir)), ign),
        out, "mapend", varname, Bytes(MapClose))

\* gofmt -w on a generated file.  Of what gofmt rewrites, the import block
\* of the header is modelled, which loses one level of indentation; the
\* layout of the declarations is left as written.
Gofmt(t) ==
  LET from == Len(HeaderMarker) + Len(HeaderPackage)
      name == Flat(TTake(TDrop(t, from), TLen(t) - from))
      n == CHOOSE i \in 0..Len(name) :
              /\ i = Len(name) \/ name[i + 1] = Newline[1]
              /\ \A k \in 1..i : name[k] # Newline[1]
      at == from + n
  IN IF HasPrefix(TDrop(t, at), HeaderImports)
     THEN Join(TTake(t, at) \o Bytes(HeaderImportsFormatted)
                 \o TDrop(t, at + Len(HeaderImports)))
     ELSE t

\* Format with the failure of gofmt dropped
FormatQuiet(w, out, ok) ==
  IF w.err # NoError THEN w
  ELSE IF ok
       THEN [Log(w, Event(out, "format", out, "", <<>>, <<>>, TRUE))
               EXCEPT !.fs[Resolve(out)].data = Gofmt(@)]
       ELSE Log(w, Event(out, "format", out, "", <<>>, <<>>, FALSE))

\* Format(path): gofmt rewrites the file, or fails and leaves it
Format(w, out, ok) ==
  IF w.err # NoError THEN w
  ELSE IF ok
       THEN [Log(w, Event(out, "format", out, "", <<>>, <<>>, TRUE))
               EXCEPT !.fs[Resolve(out)].data = Gofmt(@)]
       ELSE Fail(w, Event(out, "format", out, "", <<>>, <<>>, FALSE), Error("format", out))

---------------------------------------------------------------------------
(* Pack *)

\* the deferred fp.Close() calls, run when Pack returns: they close the
\* sink that is still open
Deferred(ev, sinks) ==
  IF sinks = {} THEN ev
  ELSE LET out == CHOOSE o \in sinks : TRUE
       IN Append(ev, Event(out, "close", out, "deferred", <<>>, <<>>, TRUE))

\* the end of a step: on an error Pack returns it, and the deferred calls run
Continue(w, sinks, pc, names) ==
  /\ fs' = w.fs
  /\ IF w.err # NoError
     THEN /\ events' = Deferred(w.events, sinks)
          /\ ret' = w.err
          /\ ppc' = "done"
          /\ open' = {}
          /\ vars' = vars
     ELSE /\ events' = w.events
          /\ ret' = ret
          /\ ppc' = pc
          /\ open' = sinks
          /\ vars' = names

\* os.Create(out) succeeds: out names no directory, and the directory that
\* is to hold it exists
CanCreate(f, out) ==
  LET p == Resolve(out)
  IN /\ p \in DOMAIN f
     /\ f[p].kind # "dir"
     /\ (Len(p) = 1 \/ IsDir(f, SubSeq(p, 1, Len(p) - 1)))

\* os.Create without O_TRUNC: what the file held stays
CreateKeep(w, out) ==
  IF CanCreate(w.fs, out)
  THEN [Log(w, Event(out, "create", out, "", <<>>, <<>>, TRUE))
          EXCEPT !.fs[Resolve(out)] = NewFile(w.fs[Resolve(out)].data)]
  ELSE Fail(w, Event(out, "create", out, "", <<>>, <<>>, FALSE), Error("create", out))

\* os.Create(out): a new empty file, or the old one truncated
Create(w, out) ==
  IF CanCreate(w.fs, out)
  THEN [Log(w, Event(out, "create", out, "", <<>>, <<>>, TRUE))
          EXCEPT !.fs[Resolve(out)] = NewFile(<<>>)]
  ELSE Fail(w, Event(out, "create", out, "", <<>>, <<>>, FALSE), Error("create", out))

\* one iteration of range data begins: the map yields a target that was
\* not yet visited, the sink is created and the header written
Begin(w, out) ==
  Header(Create(w, out), out, FilepathBase(FilepathDir(out)))

StartTarget(out) ==
  /\ ppc = "loop"
  /\ out \in todo
  /\ \E left \in -1..1 :
       Continue(Begin(Thread(fs, events, left), out),
                IF CanCreate(fs, out) THEN open \cup {out} ELSE open,
                "vars", SortStrings(DOMAIN data[out]))
  /\ todo' = todo \ {out}
  /\ cur' = out
  /\ UNCHANGED <<data, ignore, snapshot, run, first>>

\* one iteration of range varnames: os.Stat, then Dir or File
Declare(w, out, varname, files, ign) ==
  IF ~Exists(w.fs, Resolve(files))
  THEN Fail(w, Event(out, "stat", files, "", varname, <<>>, FALSE), Error("stat", files))
  ELSE LET w1 == Log(w, Event(out, "stat", files, "", varname, <<>>, TRUE))
       IN IF IsDir(w1.fs, Resolve(files))
          THEN Dir(w1, out, varname, files, ign)
          ELSE File(w1, out, varname, files)

PackVar ==
  /\ ppc = "vars"
  /\ vars # <<>>
  /\ \E left \in -1..Cardinality(DOMAIN fs) :
       Continue(Declare(Thread(fs, events, left), cur, vars[1], data[cur][vars[1]], ignore),
                open, "vars", Tail(vars))
  /\ UNCHANGED <<data, ignore, snapshot, todo, cur, run, first>>

\* fp.Close()
Close(w, out, ok) ==
  IF ok THEN Log(w, Event(out, "close", out, "", <<>>, <<>>, TRUE))
  ELSE Fail(w, Event(out, "close", out, "", <<>>, <<>>, FALSE), Error("close", out))

\* the end of an iteration of range data: the sink is closed and the file
\* formatted
FinishTarget ==
  /\ ppc = "vars"
  /\ vars = <<>>
  /\ \E closes, formats \in BOOLEAN :
       LET w1 == Close(Thread(fs, events, -1), cur, closes)
           w2 == Format(w1, cur, formats)
       IN Continue(w2, IF closes THEN open \ {cur} ELSE open, "loop", <<>>)
  /\ UNCHANGED <<data, ignore, snapshot, todo, cur, run, first>>

\* range data is exhausted: return nil
Return ==
  /\ ppc = "loop"
  /\ todo = {}
  /\ ret' = Nil
  /\ ppc' = "done"
  /\ events' = Deferred(events, open)
  /\ open' = {}
  /\ UNCHANGED <<data, ignore, snapshot, fs, todo, cur, vars, run, first>>

\* Pack is called once more with the same data and ignore list, on the
\* file system as it was before the first call
Rerun ==
  /\ ppc = "done"
  /\ ret = Nil
  /\ run = 1
  /\ run' = 2
  /\ first' = fs
  /\ fs' = snapshot
  /\ todo' = DOMAIN data
  /\ cur' = <<>>
  /\ vars' = <<>>
  /\ open' = {}
  /\ ppc' = "loop"
  /\ ret' = NoError
  /\ events' = <<>>
  /\ UNCHANGED <<data, ignore, snapshot>>

---------------------------------------------------------------------------
(* enc on its own: a content is chosen, encoded, and the expression        *)
(* evaluated as the Go toolchain evaluates it                              *)

\* The contents enc is tried on: up to MaxHead bytes, each NUL, carriage
\* return, back quote, "a" or one of the two bytes of U+00E9 (either alone
\* is invalid UTF-8), followed by nothing or by one long run of one of these
\* bytes that brings the length to the threshold of enc or next to it.
ByteValues == {0, 13, 96, 97, 195, 169}
MaxHead == 2
Heads == UNION {[1..k -> ByteValues] : k \in 0..MaxHead}
LongRuns == {CompressLimit - 1, CompressLimit, CompressLimit + 1}
Contents ==
  {Bytes(h) : h \in Heads}
  \cup {Bytes(h) \o RunOf(<<b>>, n) : h \in Heads, b \in ByteValues, n \in LongRuns}

EncInit ==
  /\ content \in Contents
  /\ expr = <<>>
  /\ value = NoValue
  /\ epc = "input"

EncIdle ==
  /\ content = <<>>
  /\ expr = <<>>
  /\ value = NoValue
  /\ epc = "idle"

\* expr := enc(content)
Encode ==
  /\ epc = "input"
  /\ expr' = enc(content)
  /\ epc' = "encoded"
  /\ UNCHANGED <<content, value>>

\* the generated package is compiled and the variable read
Evaluate ==
  /\ epc = "encoded"
  /\ value' = EvalGo(expr)
  /\ epc' = "evaluated"
  /\ UNCHANGED <<content, expr>>

EncNext ==
  \/ Encode /\ UNCHANGED <<varnameVars, packVars>>
  \/ Evaluate /\ UNCHANGED <<varnameVars, packVars>>

---------------------------------------------------------------------------
(* Varname on its own *)

\* the runes strings are drawn from: a, b, alpha, 1, Arabic-Indic 3, _ and .
Runes == {97, 98, 945, 49, 1635, 95, 46}
MaxLen == 4
Strings == UNION {[1..k -> Runes] : k \in 0..MaxLen}

VarnameInit ==
  /\ vin \in Strings
  /\ vout = <<>>
  /\ vpc = "input"

VarnameIdle ==
  /\ vin = <<>>
  /\ vout = <<>>
  /\ vpc = "idle"

\* vout := Varname(vin)
CallVarname ==
  /\ vpc = "input"
  /\ vout' = Varname(vin)
  /\ vpc' = "done"
  /\ UNCHANGED vin

VarnameNext == CallVarname /\ UNCHANGED <<encVars, packVars>>

---------------------------------------------------------------------------
(* The calls of Pack that are explored *)

NameD == <<100>>                                    \* d
NameA == <<97>>                                     \* a
NameB == <<98>>                                     \* b
NameTxt == <<97, 46, 116, 120, 116>>                \* a.txt
NameKeep == <<97, 46, 107, 101, 101, 112>>          \* a.keep
NameOut == <<111, 46, 103, 111>>                    \* o.go
NameF == <<102>>                                    \* f
NameG == <<103>>                                    \* g
NamePack == <<112, 46, 103, 111>>                   \* p.go

\* the file system before Pack is called:
\*   d/a/b  d/a.keep  d/a.txt  f  g/p.go   (d/o.go does not exist yet)
Disk ==
  (<<NameD>> :> NewDir)
  @@ (<<NameD, NameA>> :> NewDir)
  @@ (<<NameD, NameA, NameB>> :> NewFile(Bytes(<<0, 255>>)))
  @@ (<<NameD, NameKeep>> :> NewFile(<<>>))
  @@ (<<NameD, NameTxt>> :> NewFile(Bytes(<<104, 105, 96, 10>>)))
  @@ (<<NameD, NameOut>> :> Missing)
  @@ (<<NameF>> :> NewFile(Bytes(<<120, 10>>)))
  @@ (<<NameG>> :> NewDir)
  @@ (<<NameG, NamePack>> :> NewFile(Bytes(<<111, 108, 100, 10>>)))

\* the same with one thing wrong: f missing, d/a.txt unreadable, d/a
\* unreadable, g missing
Snapshots ==
  { Disk,
    [Disk EXCEPT ![<<NameF>>] = Missing],
    [Disk EXCEPT ![<<NameD, NameTxt>>].ok = FALSE],
    [Disk EXCEPT ![<<NameD, NameA>>].ok = FALSE],
    [Disk EXCEPT ![<<NameG>>] = Missing, ![<<NameG, NamePack>>] = Missing] }

\* the output targets: g/p.go, ./g/p.go (the same file) and d/o.go (a file
\* in the directory that is packed)
Targets ==
  { NameG \o Slash \o NamePack,
    Dot \o Slash \o NameG \o Slash \o NamePack,
    NameD \o Slash \o NameOut }

\* the contents of a target: A from the file f, or A from the directory d
\* and B from the file f
Contents1 == <<65>> :> NameF
Contents2 == (<<66>> :> NameF) @@ (<<65>> :> NameD)

MaxTargets == 2
PackSpecs ==
  UNION {[S -> {Contents1, Contents2}] :
           S \in {T \in SUBSET Targets : T # {} /\ Cardinality(T) <= MaxTargets}}

\* the ignore lists: none, .keep, and b with .txt
Ignores == {<<>>, <<<<46, 107, 101, 101, 112>>>>, <<<<98>>, <<46, 116, 120, 116>>>>}

PackInit ==
  /\ data \in PackSpecs
  /\ ignore \in Ignores
  /\ snapshot \in Snapshots
  /\ fs = snapshot
  /\ todo = DOMAIN data
  /\ cur = <<>>
  /\ vars = <<>>
  /\ open = {}
  /\ ppc = "loop"
  /\ ret = NoError
  /\ events = <<>>
  /\ run = 1
  /\ first = snapshot

PackIdle ==
  /\ data = <<>>
  /\ ignore = <<>>
  /\ snapshot = <<>>
  /\ fs = <<>>
  /\ todo = {}
  /\ cur = <<>>
  /\ vars = <<>>
  /\ open = {}
  /\ ppc = "idle"
  /\ ret = NoError
  /\ events = <<>>
  /\ run = 0
  /\ first = <<>>

PackNext ==
  \/ \E out \in Targets : StartTarget(out) /\ UNCHANGED <<encVars, varnameVars>>
  \/ PackVar /\ UNCHANGED <<encVars, varnameVars>>
  \/ FinishTarget /\ UNCHANGED <<encVars, varnameVars>>
  \/ Return /\ UNCHANGED <<encVars, varnameVars>>

PackTwiceNext ==
  \/ PackNext
  \/ Rerun /\ UNCHANGED <<encVars, varnameVars>>

---------------------------------------------------------------------------
(* The specifications *)

\* enc on its own, Varname on its own, one call of Pack, and two calls of
\* Pack from the same file system
InitEnc == EncInit /\ VarnameIdle /\ PackIdle
InitVarname == EncIdle /\ VarnameInit /\ PackIdle
Init == EncIdle /\ VarnameIdle /\ PackInit
SpecEnc == InitEnc /\ [][EncNext]_allVars
SpecVarname == InitVarname /\ [][VarnameNext]_allVars
Spec == Init /\ [][PackNext]_allVars
SpecTwice == Init /\ [][PackTwiceNext]_allVars

---------------------------------------------------------------------------
(* Claims about enc *)

\* C1: for every content, evaluating the Go expression that enc generated
\* for it yields exactly the content, whichever form was chosen, text with
\* backticks and text with carriage returns included.
EncRoundTrip ==
  epc = "evaluated" => value.ok /\ SameBytes(value.val, content)

\* the contents that are text: no NUL byte, valid UTF-8
IsText(s) == NoByte(s, 0) /\ Valid(s)

\* C2: the form enc chooses depends on the content alone: content with a
\* NUL byte or invalid UTF-8 is Encoded when its length is at most 102400
\* and CompressedEncoded when it is longer; every other content is Literal,
\* whatever its length.
EncodingSelection ==
  epc \in {"encoded", "evaluated"} =>
    /\ IsText(content) => EncodingKind(expr) = "Literal"
    /\ ~IsText(content) /\ TLen(content) <= 102400 => EncodingKind(expr) = "Encoded"
    /\ ~IsText(content) /\ TLen(content) > 102400 => EncodingKind(expr) = "CompressedEncoded"

\* C2 happens: 102400 bytes of content that is not text were encoded as
\* plain base64
EncodedAtLimit ==
  /\ epc = "encoded"
  /\ ~IsText(content)
  /\ TLen(content) = 102400
  /\ EncodingKind(expr) = "Encoded"

---------------------------------------------------------------------------
(* Claims about Varname *)

IdentRune(c) == IsLetter(c) \/ IsDigit(c) \/ c = 95

\* what the claim says of s before the placeholder: a valid rune stays, an
\* invalid rune that begins a run of invalid runes becomes one underscore,
\* the other invalid runes go
Collapsed(s) ==
  LET mark == [i \in 1..Len(s) |->
                 IF IdentRune(s[i]) THEN s[i]
                 ELSE IF i = 1 \/ IdentRune(s[i - 1]) THEN 95
                 ELSE 0]
  IN SelectSeq(mark, LAMBDA c : c # 0)

\* C3: the result of Varname holds only letters, digits and underscores; it
\* is empty exactly when the input is; it begins with a letter or an
\* underscore, the letter being the prepended v exactly when the collapsed
\* input begins with neither; and it is the input with every maximal run of
\* invalid runes replaced by one underscore and every valid rune kept.
VarnameCorrect ==
  vpc = "done" =>
    /\ \A i \in 1..Len(vout) : IdentRune(vout[i])
    /\ vout = <<>> <=> vin = <<>>
    /\ vout # <<>> => IsLetter(vout[1]) \/ vout[1] = 95
    /\ vout = IF vin # <<>> /\ ~IsLetter(Collapsed(vin)[1]) /\ Collapsed(vin)[1] # 95
              THEN <<118>> \o Collapsed(vin)
              ELSE Collapsed(vin)

\* C3 happens: "1..b" became "v1_b"
VarnameCollapsed ==
  /\ vpc = "done"
  /\ vin = <<49, 46, 46, 98>>
  /\ vout = <<118, 49, 95, 98>>

---------------------------------------------------------------------------
(* Claims about Pack and Dir, read off the file system and the event log *)

Indices == DOMAIN events
Started == {events[i].t : i \in Indices}
Completed == {events[i].t : i \in {j \in Indices : events[j].op = "format" /\ events[j].ok}}
Of(t) == SelectSeq(events, LAMBDA e : e.t = t)
IsWrite(e, what) == e.op = "write" /\ e.arg = what /\ e.ok

\* the bytes of the successful writes among the events ev, in order
RECURSIVE Written(_)
Written(ev) ==
  IF ev = <<>> THEN <<>>
  ELSE IF ev[1].op = "write" /\ ev[1].ok THEN Join(ev[1].data \o Written(Tail(ev)))
  ELSE Written(Tail(ev))

\* C4: two runs of Pack with the same data and ignore list from the same
\* file system leave the same bytes in every output target, whatever the
\* order in which the targets were visited.
PackDeterministic ==
  run = 2 /\ ppc = "done" /\ ret = Nil =>
    \A t \in DOMAIN data : fs[Resolve(t)].data = first[Resolve(t)].data

\* the parts of C5 that do not depend on the files of completed targets:
\* a failed call is the last call but for the deferred closes, and Pack
\* returns its error; the file of a target that was not started, and that
\* no started target names, is as it was; nil is returned only when every
\* target was created, closed and formatted
AbortsAtFailure ==
  /\ \A i \in Indices : ~events[i].ok =>
       /\ ppc = "done" /\ ret = Error(events[i].op, events[i].path)
       /\ events[i].t = cur
       /\ \A j \in Indices : j > i => events[j].arg = "deferred"
  /\ ppc = "done" => (Failed(ret) <=> \E i \in Indices : ~events[i].ok)
  /\ Failed(ret) =>
       /\ \A t \in todo : t \notin Started
       /\ \A t \in todo : (\A u \in Started : Resolve(u) # Resolve(t)) =>
            fs[Resolve(t)] = snapshot[Resolve(t)]
  /\ ret = Nil =>
       /\ todo = {}
       /\ \A t \in DOMAIN data : \A op \in {"create", "close", "format"} :
            \E i \in Indices : events[i].t = t /\ events[i].op = op /\ events[i].ok

\* the file of a completed target holds what was written to it, formatted
StaysWritten(t) ==
  /\ fs[Resolve(t)].kind = "file"
  /\ fs[Resolve(t)].data = Gofmt(Written(Of(t)))

\* a target started after t names the file of t
Overwritten(t) ==
  \E i, j \in Indices :
    /\ i < j
    /\ events[i].t = t
    /\ events[j].t # t
    /\ events[j].op = "create" /\ events[j].ok
    /\ Resolve(events[j].t) = Resolve(t)

\* C5 as stated: Pack returns at the first failed step with that target's
\* error, starts no further target, and every completed target stays on
\* disk written and formatted; nil means every target was written, closed
\* and formatted.
AbortKeepsCompleted ==
  /\ AbortsAtFailure
  /\ \A t \in Completed : StaysWritten(t)

\* C5, amended: the same, but a completed target stays on disk only while
\* no target started after it names the same file.
AbortKeepsUnshared ==
  /\ AbortsAtFailure
  /\ \A t \in Completed : ~Overwritten(t) => StaysWritten(t)

\* C5 happens: a target was completed, and Pack returned the error of the
\* next one, leaving a third one unstarted or none
AbortedAfterCompleted ==
  /\ Failed(ret)
  /\ Completed # {}
  /\ cur \notin Completed
  /\ fs[Resolve(CHOOSE t \in Completed : TRUE)].data # <<>>

\* the last call of Dir: the events from the os.Stat that precedes it, and
\* the directory it was called on
LastStat == CHOOSE i \in Indices : events[i].op = "stat" /\ \A j \in Indices : j > i => events[j].op # "stat"
InDir ==
  /\ \E i \in Indices : events[i].op = "stat"
  /\ \E i \in Indices : i > LastStat /\ events[i].op = "write" /\ events[i].arg = "map"
DirEvents == SubSeq(events, LastStat + 1, Len(events))
DirRoot == Resolve(events[LastStat].path)
Entries == SelectSeq(DirEvents, LAMBDA e : IsWrite(e, "entry"))
Reads == SelectSeq(DirEvents, LAMBDA e : e.op = "read")
Range(s) == {s[i] : i \in DOMAIN s}

\* the regular files below the directory at p, and the path strings filepath.Walk
\* gives them when it starts from a clean relative path
FilesBelow(p) ==
  {q \in DOMAIN fs : Len(q) > Len(p) /\ SubSeq(q, 1, Len(p)) = p /\ fs[q].kind = "file"}
Kept(q) == \A i \in 1..Len(ignore) : ~StringsHasSuffix(JoinNames(q), ignore[i])

\* C6: when Dir has written a mapping, it holds one entry for each regular
\* file below the root whose path ends with none of the ignore suffixes,
\* and no other entry; the files read are exactly those, so that an ignored
\* file is neither read nor emitted; with no ignore suffix every regular
\* file has its entry.
DirIgnores ==
  InDir /\ IsWrite(events[Len(events)], "mapend") =>
    /\ {e.name : e \in Range(Entries)} = {JoinNames(q) : q \in {r \in FilesBelow(DirRoot) : Kept(r)}}
    /\ {e.path : e \in Range(Reads)} = {e.name : e \in Range(Entries)}
    /\ Len(Entries) = Cardinality({e.name : e \in Range(Entries)})
    /\ Len(Reads) = Len(Entries)
    /\ ignore = <<>> => Len(Entries) = Cardinality(FilesBelow(DirRoot))

\* C6 happens: with the suffix .keep, d/a.txt was emitted and d/a.keep was
\* neither read nor emitted
KeepIgnored ==
  /\ InDir /\ IsWrite(events[Len(events)], "mapend")
  /\ ignore = <<<<46, 107, 101, 101, 112>>>>
  /\ \E e \in Range(Entries) : e.name = NameD \o Slash \o NameTxt
  /\ \A e \in Range(DirEvents) : NameD \o Slash \o NameKeep \notin {e.name, e.path}

\* Dir returned because the walk or a read of an entry failed
DirFailed ==
  /\ InDir
  /\ ppc = "done"
  /\ ret.kind \in {"walk", "read"}

\* the order in which filepath.Walk visits: name by name, a directory
\* before what it holds
RECURSIVE WalkBefore(_, _)
WalkBefore(p, q) ==
  IF p = <<>> THEN q # <<>>
  ELSE IF q = <<>> THEN FALSE
  ELSE IF p[1] = q[1] THEN WalkBefore(Tail(p), Tail(q))
  ELSE StringLess(p[1], q[1])

\* what C7 says besides "no partial results": the failed call is on an
\* entry below the root that cannot be read, it is the last call on the
\* directory, the error carries its path, and the mapping is not closed
WalkStops ==
  LET failed == DirEvents[Len(DirEvents) - (IF events[Len(events)].arg = "deferred" THEN 1 ELSE 0)]
  IN /\ ~failed.ok
     /\ failed.op = ret.kind
     /\ failed.path = ret.path
     /\ ~fs[Resolve(ret.path)].ok
     /\ Len(Resolve(ret.path)) > Len(DirRoot)
     /\ \A e \in Range(DirEvents) : ~IsWrite(e, "mapend")
     /\ \A e \in Range(Reads) : e.ok => WalkBefore(Resolve(e.path), Resolve(ret.path))

\* C7 as stated: a walk or read error on an entry stops the walk there,
\* Dir returns an error with the path of the entry, and no entry of the
\* directory has reached the sink.
WalkFailureNoPartial ==
  DirFailed => WalkStops /\ Entries = <<>>

\* C7, amended: the same, but the entries of the files that the walk
\* visited before the failing entry have reached the sink and stay there.
WalkFailurePartial ==
  DirFailed =>
    /\ WalkStops
    /\ {e.name : e \in Range(Entries)} =
         {JoinNames(q) : q \in {r \in FilesBelow(DirRoot) :
                                  Kept(r) /\ WalkBefore(r, Resolve(ret.path))}}
    /\ fs[Resolve(cur)].data = Written(Of(cur))

\* C7 happens: the read of d/a.txt failed after the entry of d/a/b was written
ReadFailedAfterEntry ==
  /\ DirFailed
  /\ ret = Error("read", NameD \o Slash \o NameTxt)
  /\ \E e \in Range(Entries) : e.name = NameD \o Slash \o NameA \o Slash \o NameB

\* two entries of one mapping: no mapping is opened between them
SameMapping(i, j) ==
  /\ i < j
  /\ IsWrite(events[i], "entry")
  /\ IsWrite(events[j], "entry")
  /\ \A k \in i..j : events[k].arg # "map"

\* C8 as stated: the entries of one mapping are in ascending order of their
\* full path strings.
EntriesStringOrder ==
  \A i, j \in Indices : SameMapping(i, j) => StringLess(events[i].name, events[j].name)

\* C8, amended: the entries of one mapping are in the order of the walk:
\* ascending name by name, the content of a directory before the next name
\* in its parent.
EntriesWalkOrder ==
  \A i, j \in Indices : SameMapping(i, j) =>
    WalkBefore(Resolve(events[i].name), Resolve(events[j].name))

\* C8 happens: the entry of d/a/b was written before the entry of d/a.txt
SubdirBeforeSibling ==
  \E i, j \in Indices :
    /\ SameMapping(i, j)
    /\ events[i].name = NameD \o Slash \o NameA \o Slash \o NameB
    /\ events[j].name = NameD \o Slash \o NameTxt

\* the declarations written for target t: the writes that open one
Declarations(t) == SelectSeq(Of(t), LAMBDA e : IsWrite(e, "var") \/ IsWrite(e, "map"))

\* the directory that holds the file at path string s
Containing(s) == Resolve(s)[Len(Resolve(s)) - 1]

\* C9: for a completed target the calls are, in this order: the creation of
\* the sink; the write of the marker and the write of the package clause,
\* named after the directory that holds the target; one declaration for
\* each variable name, in strictly ascending order of the names, a scalar
\* for a file and a mapping for a directory, with nothing but their stats,
\* reads and writes in between; the close of the sink; one call of the
\* formatter, on the target.  The formatter is never called on a sink that
\* was not closed.
TargetOrder ==
  /\ \A t \in Completed :
       LET ev == Of(t)
           n == Len(ev)
           decl == Declarations(t)
       IN /\ n >= 5
          /\ ev[1].op = "create" /\ ev[1].ok /\ ev[1].path = t
          /\ IsWrite(ev[2], "marker") /\ ev[2].data = Bytes(HeaderMarker)
          /\ IsWrite(ev[3], "package") /\ ev[3].name = Containing(t)
          /\ HasPrefix(ev[3].data, HeaderPackage \o Containing(t) \o Newline)
          /\ \A i \in 4..(n - 2) :
               /\ ev[i].ok
               /\ \/ ev[i].op \in {"stat", "read"}
                  \/ ev[i].op = "write" /\ ev[i].arg \in {"var", "map", "entry", "mapend"}
          /\ ev[n - 1].op = "close" /\ ev[n - 1].ok /\ ev[n - 1].arg = ""
          /\ ev[n].op = "format" /\ ev[n].ok /\ ev[n].path = t
          /\ {decl[i].name : i \in DOMAIN decl} = DOMAIN data[t]
          /\ \A i \in DOMAIN decl :
               /\ i > 1 => StringLess(decl[i - 1].name, decl[i].name)
               /\ decl[i].arg = "map" <=> snapshot[Resolve(data[t][decl[i].name])].kind = "dir"
               /\ decl[i].arg = "var" <=> snapshot[Resolve(data[t][decl[i].name])].kind = "file"
  /\ \A i \in Indices : events[i].op = "format" =>
       /\ events[i].t \notin open
       /\ \E j \in 1..(i - 1) :
            events[j].t = events[i].t /\ events[j].op = "close" /\ events[j].ok

\* C9 happens: a target with the variables A, a directory, and B, a file,
\* was completed
TwoDeclarations ==
  \E t \in Completed :
    /\ Len(Declarations(t)) = 2
    /\ Declarations(t)[1].arg = "map" /\ Declarations(t)[1].name = <<65>>
    /\ Declarations(t)[2].arg = "var" /\ Declarations(t)[2].name = <<66>>

\* C10: the sink is created before any source path is looked at; when a
\* target fails after that and before the formatter, its file is there
\* with exactly what was written until then, the header first when the
\* failure came after it, and nothing of what it held before; the formatter
\* is not called for the target.
FailureLeavesPartial ==
  /\ \A i \in Indices : events[i].op \in {"stat", "read", "walk"} =>
       \E j \in 1..(i - 1) :
         events[j].t = events[i].t /\ events[j].op = "create" /\ events[j].ok
  /\ Failed(ret) /\ ret.kind \notin {"create", "format"} =>
       /\ fs[Resolve(cur)].kind = "file"
       /\ fs[Resolve(cur)].data = Written(Of(cur))
       /\ ret.kind \in {"stat", "read", "walk", "close"} =>
            HasPrefix(fs[Resolve(cur)].data,
                      HeaderMarker \o HeaderPackage \o Containing(cur) \o HeaderImports)
       /\ \A i \in Indices : events[i].t = cur => events[i].op # "format"

\* C10 happens: the source of a target was missing, and the file the
\* target had before now holds the header only
OldContentLost ==
  /\ ret.kind = "stat"
  /\ snapshot[Resolve(cur)].kind = "file"
  /\ snapshot[Resolve(cur)].data # <<>>
  /\ fs[Resolve(cur)].data =
       Bytes(HeaderMarker \o HeaderPackage \o Containing(cur) \o HeaderImports)
====
